---- MODULE Spec2Model ----
(***************************************************************************)
(* Model of get_commits.py: main() fetches the commit list of a fixed      *)
(* repository, appends it as a markdown table to an index file and         *)
(* creates two placeholder files per commit.                               *)
(*                                                                         *)
(* A Python string is a sequence of string tokens (a hash is a sequence    *)
(* of one-character tokens, so that x[:7] is SubSeq); string               *)
(* concatenation and f-strings are \o.  The filesystem is a function from  *)
(* the paths of the existing files to their content.  Column padding of    *)
(* the rendered table is not modelled.                                     *)
(***************************************************************************)
EXTENDS Integers, Sequences, FiniteSets, TLC

\* ---- bounds of the explored inputs ----
MaxCommits == 2      \* entries in one API response
MaxTail == 2         \* a sha is ShaStem followed by 1..MaxTail characters
MaxRuns == 2         \* runs of main against the same response

\* ---- program constants ----
ShortHashLen == 7

org == <<"devchat-ai">>

repo == <<"gopool">>

file_path == <<"devchat-ai", "/", "gopool", "/", "index.md">>

DefaultDirectoryBesideIndex == <<"devchat-ai", "/", "gopool">>

DefaultDirectory == <<"devchat-ai", "/", "gopool", "/", "commits">>

Suffixes == << <<>>, <<"_zh">> >>

Columns == <<"Commit", "Commit Hash", "Author", "Prompts with GPT", "给 GPT 的 Prompts">>

\* ---- the input space ----
ShaStem == <<"d", "e", "a", "d", "b", "e">>

\* the shas of the responses: the stem, n - 1 times "a", then "a" or "b", so
\* that shas of 7 and of more characters occur and two long ones share their
\* first 7 characters
Shas == {ShaStem \o [k \in 1..n |-> IF k < n THEN "a" ELSE c] : n \in 1..MaxTail, c \in {"a", "b"}}

Messages == {<<"Fix bug">>, <<"Fix bug", "\n", "\n", "Details here">>}

Fields == {"message", "sha", "name", "login"}

\* an API commit entry, flattened: commit.message, sha, commit.author.name, author.login
FullEntry(m, h) ==
    [f \in Fields |-> CASE f = "message" -> m
                        [] f = "sha" -> h
                        [] f = "name" -> <<"Jane">>
                        [] f = "login" -> <<"jane">>]

Restrict(e, D) == [f \in D |-> e[f]]

WellFormedEntries == {FullEntry(m, h) : m \in Messages, h \in Shas}

MalformedEntries ==
    {Restrict(FullEntry(<<"Fix bug">>, ShaStem \o <<"a", "b">>), Fields \ {f}) : f \in Fields}

Entries == WellFormedEntries \cup MalformedEntries

RECURSIVE Bodies(_)
Bodies(n) ==
    IF n = 0 THEN {<<>>}
    ELSE LET shorter == Bodies(n - 1)
         IN  shorter \cup {Append(b, e) : b \in {s \in shorter : Len(s) = n - 1}, e \in Entries}

\* a success carries any body; the body of a failure is never read
Responses ==
    [status_code : {200}, json : Bodies(MaxCommits)] \cup [status_code : {404}, json : Bodies(1)]

\* ---- pure functions of the script ----
Min(a, b) == IF a < b THEN a ELSE b

\* x[:7]
ShortHash(x) == SubSeq(x, 1, Min(Len(x), ShortHashLen))

RECURSIVE SplitFirstLine(_)
\* message.split('\n', 1)[0]
SplitFirstLine(message) ==
    IF message = <<>> \/ Head(message) = "\n" THEN <<>>
    ELSE <<Head(message)>> \o SplitFirstLine(Tail(message))

raise_for_status_never(status_code) == FALSE

\* requests.Response.raise_for_status
raise_for_status(status_code) == status_code >= 400 /\ status_code < 600

HasAllFields(commit) == Fields \subseteq DOMAIN commit

CommitRecordShortLinks(commit) ==
    LET commit_message_title == SplitFirstLine(commit["message"])
    IN  [c \in {Columns[k] : k \in 1..Len(Columns)} |->
           CASE c = "Commit" ->
                  <<"[">> \o commit_message_title \o <<"](https://github.com/">> \o org
                      \o <<"/">> \o repo \o <<"/commit/">> \o commit["sha"] \o <<")">>
             [] c = "Commit Hash" -> commit["sha"]
             [] c = "Author" ->
                  <<"[">> \o commit["name"] \o <<"](https://github.com/">>
                      \o commit["login"] \o <<")">>
             [] c = "Prompts with GPT" ->
                  <<"[", "Prompts with GPT", "](">> \o <<".", "/", "commits", "/">>
                      \o ShortHash(commit["sha"]) \o <<".md">> \o <<")">>
             [] c = "给 GPT 的 Prompts" ->
                  <<"[", "给 GPT 的 Prompts", "](">> \o <<".", "/", "commits", "/">>
                      \o ShortHash(commit["sha"]) \o <<"_zh", ".md">> \o <<")">>]

\* the dict appended for one entry of the response
CommitRecord(commit) ==
    LET commit_message_title == SplitFirstLine(commit["message"])
    IN  [c \in {Columns[k] : k \in 1..Len(Columns)} |->
           CASE c = "Commit" ->
                  <<"[">> \o commit_message_title \o <<"](https://github.com/">> \o org
                      \o <<"/">> \o repo \o <<"/commit/">> \o commit["sha"] \o <<")">>
             [] c = "Commit Hash" -> commit["sha"]
             [] c = "Author" ->
                  <<"[">> \o commit["name"] \o <<"](https://github.com/">>
                      \o commit["login"] \o <<")">>
             [] c = "Prompts with GPT" ->
                  <<"[", "Prompts with GPT", "](">> \o <<".", "/", "commits", "/">>
                      \o commit["sha"] \o <<".md">> \o <<")">>
             [] c = "给 GPT 的 Prompts" ->
                  <<"[", "给 GPT 的 Prompts", "](">> \o <<".", "/", "commits", "/">>
                      \o commit["sha"] \o <<"_zh", ".md">> \o <<")">>]

RECURSIVE get_commits_loop_reversed(_, _)
get_commits_loop_reversed(commits_, commit_data) ==
    IF commits_ = <<>> THEN [err |-> "none", value |-> commit_data]
    ELSE IF ~HasAllFields(Head(commits_)) THEN [err |-> "KeyError", value |-> <<>>]
    ELSE get_commits_loop_reversed(Tail(commits_),
                                   <<CommitRecord(Head(commits_))>> \o commit_data)

RECURSIVE get_commits_loop(_, _)
\* the for loop of get_commits: a missing key raises out of the loop
get_commits_loop(commits_, commit_data) ==
    IF commits_ = <<>> THEN [err |-> "none", value |-> commit_data]
    ELSE IF ~HasAllFields(Head(commits_)) THEN [err |-> "KeyError", value |-> <<>>]
    ELSE get_commits_loop(Tail(commits_), Append(commit_data, CommitRecord(Head(commits_))))

get_commits(resp) ==
    IF raise_for_status(resp.status_code) THEN [err |-> "HTTPError", value |-> <<>>]
    ELSE get_commits_loop(resp.json, <<>>)

\* df = pd.DataFrame(commits); df['Commit Hash'] = df['Commit Hash'].apply(lambda x: x[:7])
\* The frame is a copy: the dicts of the list keep the full hash.
DataFrame(commits_) ==
    [k \in 1..Len(commits_) |-> [commits_[k] EXCEPT !["Commit Hash"] = ShortHash(@)]]

RECURSIVE JoinCells(_, _)
JoinCells(cells, k) ==
    IF k > Len(cells) THEN <<"|">>
    ELSE <<"|">> \o cells[k] \o JoinCells(cells, k + 1)

HeaderLine == JoinCells([k \in 1..Len(Columns) |-> <<Columns[k]>>], 1)

SeparatorLine == JoinCells([k \in 1..Len(Columns) |-> <<":---">>], 1)

RowLine(row) == JoinCells([k \in 1..Len(Columns) |-> row[Columns[k]]], 1)

RECURSIVE JoinLines(_, _)
JoinLines(lines, k) ==
    IF k > Len(lines) THEN <<>>
    ELSE IF k = Len(lines) THEN lines[k]
    ELSE lines[k] \o <<"\n">> \o JoinLines(lines, k + 1)

\* df.to_markdown(index=False): header, separator, one line per row, no final newline
to_markdown(df) ==
    JoinLines(<<HeaderLine, SeparatorLine>> \o [k \in 1..Len(df) |-> RowLine(df[k])], 1)

ContentOf(fs_, path) == IF path \in DOMAIN fs_ THEN fs_[path] ELSE <<>>

WriteFile(fs_, path, content) ==
    [p \in DOMAIN fs_ \cup {path} |-> IF p = path THEN content ELSE fs_[p]]

open_w_write(fs_, path, text) == WriteFile(fs_, path, text)

open_a_write_dedup(fs_, path, text) ==
    IF path \in DOMAIN fs_ /\ Len(fs_[path]) >= Len(text)
       /\ SubSeq(fs_[path], Len(fs_[path]) - Len(text) + 1, Len(fs_[path])) = text
    THEN fs_
    ELSE WriteFile(fs_, path, ContentOf(fs_, path) \o text)

\* with open(file_path, "a") as f: f.write(text)
open_a_write(fs_, path, text) == WriteFile(fs_, path, ContentOf(fs_, path) \o text)

append_commits_to_file(fs_, commits_, path, writable) ==
    IF commits_ = <<>> THEN [err |-> "KeyError", fs |-> fs_]
    ELSE IF ~writable THEN [err |-> "OSError", fs |-> fs_]
    ELSE [err |-> "none", fs |-> open_a_write(fs_, path, to_markdown(DataFrame(commits_)))]

PlaceholderPathShort(commit, directory, suffix) ==
    directory \o <<"/">> \o ShortHash(commit["Commit Hash"]) \o suffix \o <<".md">>

\* os.path.join(directory, f"{commit['Commit Hash']}{suffix}.md")
PlaceholderPath(commit, directory, suffix) ==
    directory \o <<"/">> \o commit["Commit Hash"] \o suffix \o <<".md">>

CreateAlways(fs_, path) == WriteFile(fs_, path, <<>>)

\* if not os.path.exists(file_path): open(file_path, "w").write("")
CreateIfAbsent(fs_, path) ==
    IF path \in DOMAIN fs_ THEN fs_ ELSE WriteFile(fs_, path, <<>>)

RECURSIVE create_commit_files_loop(_, _, _, _)
create_commit_files_loop(fs_, commit, directory, k) ==
    IF k > Len(Suffixes) THEN fs_
    ELSE create_commit_files_loop(
             CreateIfAbsent(fs_, PlaceholderPath(commit, directory, Suffixes[k])),
             commit, directory, k + 1)

create_commit_files(fs_, commit, directory) ==
    create_commit_files_loop(fs_, commit, directory, 1)

\* the paths create_commit_files looks at for one record
PlaceholderPaths(commit, directory) ==
    {PlaceholderPath(commit, directory, Suffixes[k]) : k \in 1..Len(Suffixes)}

MainOrderScaffoldFirst == <<"get_commits", "create_commit_files", "append_commits_to_file">>

\* the statements of main, in order
MainOrder == <<"get_commits", "append_commits_to_file", "create_commit_files">>

StepAfter(step) ==
    LET k == CHOOSE j \in 1..Len(MainOrder) : MainOrder[j] = step
    IN  IF k = Len(MainOrder) THEN "done" ELSE MainOrder[k + 1]

\* ---- state ----
VARIABLES
    response,       \* what the API answers (the same in every run)
    indexWritable,  \* whether the index file can be opened for appending
    fs,             \* the filesystem: path -> content of the existing files
    pc,             \* the statement of main to execute next, "done" or "failed"
    err,            \* the exception that ended the run, or "none"
    commits,        \* main's local list of records
    i,              \* records already handled by main's for loop
    runs,           \* runs of main started so far
    fs0,            \* the filesystem before the first run
    fsRun,          \* the filesystem when the current run started
    fs1,            \* the filesystem at the end of the first run
    trace,          \* the calls main has made in the current run
    written,        \* the texts append_commits_to_file has written, in order
    scaffolded      \* the records create_commit_files has returned for, over all runs

vars == <<response, indexWritable, fs, pc, err, commits, i, runs, fs0, fsRun, fs1, trace,
          written, scaffolded>>

EmptyFs == [p \in {} |-> <<>>]

PriorIndexContents == {<<"# gopool", "\n">>}

PriorNotes == <<"notes">>

\* annotation files somebody may have written before the first run: the English
\* one of a 7-character sha, the Chinese one of a longer sha
CandidatePaths ==
    {DefaultDirectory \o <<"/">> \o ShaStem \o <<"a">> \o Suffixes[1] \o <<".md">>,
     DefaultDirectory \o <<"/">> \o ShaStem \o <<"a", "b">> \o Suffixes[2] \o <<".md">>}

InitialFilesystems ==
    LET indexes == {EmptyFs} \cup {WriteFile(EmptyFs, file_path, c) : c \in PriorIndexContents}
    IN  indexes \cup {WriteFile(f, p, PriorNotes) : f \in indexes, p \in CandidatePaths}

Call(op, arg) == [op |-> op, arg |-> arg]

Init ==
    /\ response \in Responses
    /\ indexWritable \in BOOLEAN
    /\ fs \in InitialFilesystems
    /\ pc = MainOrder[1]
    /\ err = "none"
    /\ commits = <<>>
    /\ i = 0
    /\ runs = 1
    /\ fs0 = fs
    /\ fsRun = fs
    /\ fs1 = EmptyFs
    /\ trace = <<>>
    /\ written = <<>>
    /\ scaffolded = {}

\* commits = get_commits(org, repo)
Fetch ==
    /\ pc = "get_commits"
    /\ LET r == get_commits(response)
       IN  /\ commits' = r.value
           /\ err' = r.err
           /\ pc' = IF r.err = "none" THEN StepAfter("get_commits") ELSE "failed"
    /\ trace' = Append(trace, Call("get_commits", 0))
    /\ UNCHANGED <<response, indexWritable, fs, i, runs, fs0, fsRun, fs1, written, scaffolded>>

\* append_commits_to_file(commits, file_path)
AppendTable ==
    /\ pc = "append_commits_to_file"
    /\ LET r == append_commits_to_file(fs, commits, file_path, indexWritable)
       IN  /\ fs' = r.fs
           /\ err' = r.err
           /\ pc' = IF r.err = "none" THEN StepAfter("append_commits_to_file") ELSE "failed"
           /\ written' = IF r.err = "none"
                         THEN Append(written, to_markdown(DataFrame(commits)))
                         ELSE written
    /\ trace' = Append(trace, Call("append_commits_to_file", 0))
    /\ UNCHANGED <<response, indexWritable, commits, i, runs, fs0, fsRun, fs1, scaffolded>>

\* one iteration of: for commit in commits: create_commit_files(commit)
Scaffold ==
    /\ pc = "create_commit_files"
    /\ i < Len(commits)
    /\ fs' = create_commit_files(fs, commits[i + 1], DefaultDirectory)
    /\ i' = i + 1
    /\ trace' = Append(trace, Call("create_commit_files", i + 1))
    /\ scaffolded' = scaffolded \cup {commits[i + 1]}
    /\ UNCHANGED <<response, indexWritable, pc, err, commits, runs, fs0, fsRun, fs1, written>>

\* the for loop is exhausted
LoopExit ==
    /\ pc = "create_commit_files"
    /\ i = Len(commits)
    /\ pc' = StepAfter("create_commit_files")
    /\ fs1' = IF runs = 1 /\ pc' = "done" THEN fs ELSE fs1
    /\ UNCHANGED <<response, indexWritable, fs, err, commits, i, runs, fs0, fsRun, trace,
                   written, scaffolded>>

\* the script is run again after a successful run
Rerun ==
    /\ pc = "done"
    /\ runs < MaxRuns
    /\ runs' = runs + 1
    /\ pc' = MainOrder[1]
    /\ commits' = <<>>
    /\ i' = 0
    /\ trace' = <<>>
    /\ fsRun' = fs
    /\ UNCHANGED <<response, indexWritable, fs, err, fs0, fs1, written, scaffolded>>

Next == Fetch \/ AppendTable \/ Scaffold \/ LoopExit \/ Rerun

Spec == Init /\ [][Next]_vars

\* ---- helpers of the properties ----
IsPrefix(s, t) == Len(s) <= Len(t) /\ SubSeq(t, 1, Len(s)) = s

\* the response is a success status carrying only entries with every expected field
ResponseValid ==
    /\ response.status_code < 400
    /\ \A k \in 1..Len(response.json) : Fields \subseteq DOMAIN response.json[k]

FetchCalled == trace # <<>>

FetchFailed == Len(trace) = 1 /\ pc = "failed"

AppendCalled == \E k \in 1..Len(trace) : trace[k].op = "append_commits_to_file"

AppendFailed ==
    pc = "failed" /\ trace # <<>> /\ trace[Len(trace)].op = "append_commits_to_file"

\* the text between "](" and ")" of a markdown link cell
LinkTarget(cell) == SubSeq(cell, 4, Len(cell) - 1)

CommitsLink(name, suffix) == <<".", "/", "commits", "/">> \o name \o suffix \o <<".md">>

FileIn(directory, name, suffix) == directory \o <<"/">> \o name \o suffix \o <<".md">>

\* a "./x" link resolved against the directory of the file that contains it
Resolve(container, target) ==
    SubSeq(container, 1, Len(container) - 2) \o <<"/">> \o SubSeq(target, 3, Len(target))

RECURSIVE SplitOn(_, _)
SplitOn(s, sep) ==
    IF \A k \in 1..Len(s) : s[k] # sep THEN <<s>>
    ELSE LET k == CHOOSE j \in 1..Len(s) : s[j] = sep /\ \A m \in 1..(j - 1) : s[m] # sep
         IN  <<SubSeq(s, 1, k - 1)>> \o SplitOn(SubSeq(s, k + 1, Len(s)), sep)

RECURSIVE Copies(_, _)
Copies(text, k) == IF k = 0 THEN <<>> ELSE text \o Copies(text, k - 1)

Placeholders(fs_) == [p \in DOMAIN fs_ \ {file_path} |-> fs_[p]]

LongSha(c) == Len(c["Commit Hash"]) > ShortHashLen

C2_NeverOverwritesIdempotent ==
    [][i' = i + 1 =>
          /\ \A p \in DOMAIN fs : p \in DOMAIN fs' /\ fs'[p] = fs[p]
          /\ commits[i + 1] \in scaffolded => fs' = fs]_vars

C2_Witness ==
    /\ runs = 2
    /\ pc = "done"
    /\ \E c \in scaffolded :
          /\ FileIn(DefaultDirectory, c["Commit Hash"], <<>>) \in DOMAIN fs0
          /\ fs[FileIn(DefaultDirectory, c["Commit Hash"], <<>>)] = PriorNotes
          /\ FileIn(DefaultDirectory, c["Commit Hash"], <<"_zh">>) \notin DOMAIN fs0

\* C3: the index file only ever changes by a call of append_commits_to_file, and
\* the call leaves the prior content in place and puts its text right after it
\* (so the second call's text follows the first call's text).
C3_AppendOnly ==
    [][\/ /\ file_path \in DOMAIN fs => file_path \in DOMAIN fs'
          /\ ContentOf(fs', file_path) = ContentOf(fs, file_path)
       \/ /\ Len(written') = Len(written) + 1
          /\ file_path \in DOMAIN fs'
          /\ IsPrefix(ContentOf(fs, file_path), fs'[file_path])
          /\ fs'[file_path] = ContentOf(fs, file_path) \o written'[Len(written')]
          /\ written'[Len(written')] # <<>>]_vars

C3_Witness ==
    /\ Len(written) = 2
    /\ file_path \in DOMAIN fs0
    /\ fs[file_path] = fs0[file_path] \o written[1] \o written[2]

\* C4: for a successful response of N well-formed entries get_commits returns N
\* records and the k-th record carries the sha, title, author name and login of
\* the k-th entry.
C4_OneRecordPerEntryInOrder ==
    (ResponseValid /\ FetchCalled) =>
        /\ ~FetchFailed
        /\ Len(commits) = Len(response.json)
        /\ \A k \in 1..Len(commits) :
              /\ commits[k]["Commit Hash"] = response.json[k]["sha"]
              /\ commits[k]["Commit"] =
                     <<"[">> \o SplitFirstLine(response.json[k]["message"])
                         \o <<"](https://github.com/", "devchat-ai", "/", "gopool", "/commit/">>
                         \o response.json[k]["sha"] \o <<")">>
              /\ commits[k]["Author"] =
                     <<"[">> \o response.json[k]["name"] \o <<"](https://github.com/">>
                         \o response.json[k]["login"] \o <<")">>

C4_Witness ==
    /\ ResponseValid
    /\ FetchCalled
    /\ Len(commits) >= 2
    /\ commits[1]["Commit Hash"] # commits[2]["Commit Hash"]
    /\ commits[1]["Commit"] # commits[2]["Commit"]

\* C5: when the status is a failure or an entry lacks a field, get_commits is
\* called once and raises, no record list is returned, the run ends failed, and
\* neither append_commits_to_file nor create_commit_files is called: the
\* filesystem stays what it was before the run.
C5_FetchFailureLeavesFilesAlone ==
    ~ResponseValid =>
        /\ fs = fs0
        /\ commits = <<>>
        /\ written = <<>>
        /\ scaffolded = {}
        /\ Len(trace) <= 1
        /\ \A k \in 1..Len(trace) : trace[k].op = "get_commits"
        /\ FetchCalled => pc = "failed" /\ err \in {"HTTPError", "KeyError"}
        /\ runs = 1

C5_Witness ==
    /\ pc = "failed"
    /\ response.status_code < 400
    /\ Len(response.json) = 2
    /\ Fields \subseteq DOMAIN response.json[1]
    /\ ~(Fields \subseteq DOMAIN response.json[2])
    /\ file_path \in DOMAIN fs0

\* C6: in a run the calls are get_commits, then append_commits_to_file, then
\* create_commit_files for record 1, 2, ... in order; no file is created before
\* the append has written the table; a failed append ends the run with no
\* placeholder created; a completed run has made each call exactly once.
C6_FetchAppendScaffoldOrder ==
    /\ \A k \in 1..Len(trace) :
          /\ k = 1 => trace[k] = Call("get_commits", 0)
          /\ k = 2 => trace[k] = Call("append_commits_to_file", 0)
          /\ k > 2 => trace[k] = Call("create_commit_files", k - 2)
    /\ Len(trace) <= 2 + Len(commits)
    /\ Len(written) < runs => Placeholders(fs) = Placeholders(fsRun)
    /\ Len(trace) > 2 => Len(written) = runs
    /\ AppendFailed => fs = fsRun /\ Len(trace) = 2
    /\ pc = "done" => Len(trace) = 2 + Len(commits) /\ i = Len(commits)

C6_Witness ==
    /\ pc = "done"
    /\ Len(commits) >= 2
    /\ Len(trace) = 2 + Len(commits)
    /\ Placeholders(fs) # Placeholders(fsRun)

C8_IndexGrowsPlaceholdersStay ==
    pc = "done" =>
        /\ Len(written) = runs
        /\ written[runs] = to_markdown(DataFrame(commits))
        /\ fs[file_path] = ContentOf(fs0, file_path) \o Copies(written[1], runs)
        /\ runs >= 2 => Placeholders(fs) = Placeholders(fs1)

C8_Witness ==
    /\ pc = "done"
    /\ runs >= 2
    /\ Placeholders(fs) # Placeholders(fs0)
    /\ Len(fs[file_path]) > Len(ContentOf(fs0, file_path)) + Len(written[1])

\* C9: for every sequence of records, the empty one included, a call of
\* append_commits_to_file on a writable file completes without error, the file
\* exists afterwards, and its content is the prior content followed by a table
\* of one line per record under the two header lines.
C9_AppendCompletesForAnySequence ==
    (AppendCalled /\ indexWritable) =>
        /\ ~AppendFailed
        /\ file_path \in DOMAIN fs
        /\ Len(written) = runs
        /\ fs[file_path] = ContentOf(fsRun, file_path) \o written[runs]
        /\ Len(SplitOn(written[runs], "\n")) = Len(commits) + 2

\* C10: after a successful run every record's row in the appended table links
\* (relative to the index file's directory) to exactly the two paths
\* create_commit_files looks at for that record, both files exist, and records
\* with different hashes have no placeholder path in common.
C10_LinksMatchPlaceholders ==
    pc = "done" =>
        LET lines == SplitOn(written[Len(written)], "\n")
            RowLinks(k) == LET cells == SplitOn(lines[k + 2], "|")
                           IN  {Resolve(file_path, LinkTarget(cells[5])),
                                Resolve(file_path, LinkTarget(cells[6]))}
        IN  /\ Len(lines) = Len(commits) + 2
            /\ \A k \in 1..Len(commits) :
                  /\ RowLinks(k) = PlaceholderPaths(commits[k], DefaultDirectory)
                  /\ Cardinality(RowLinks(k)) = 2
                  /\ RowLinks(k) \subseteq DOMAIN fs
            /\ \A k, m \in 1..Len(commits) :
                  commits[k]["Commit Hash"] # commits[m]["Commit Hash"] =>
                      PlaceholderPaths(commits[k], DefaultDirectory)
                          \cap PlaceholderPaths(commits[m], DefaultDirectory) = {}

C10_Witness ==
    /\ pc = "done"
    /\ Len(commits) = 2
    /\ ShortHash(commits[1]["Commit Hash"]) = ShortHash(commits[2]["Commit Hash"])
    /\ commits[1]["Commit Hash"] # commits[2]["Commit Hash"]
    /\ PlaceholderPaths(commits[1], DefaultDirectory) \cap DOMAIN fs0 = {}

====
